---- MODULE Spec2Model ----
(***************************************************************************)
(* Model of mass_shift_abundances.py: one run of _main, from the command   *)
(* line to the result file, with the worker pool of                        *)
(* _getMassShiftAbundances as interleaved worker steps.                    *)
(*                                                                         *)
(* Text is a sequence of one-character strings.  A dict is a sequence of   *)
(* [key, val] entries with distinct keys, in insertion order.  A float     *)
(* abundance is the numerator of a fraction over AbDenom; the abundance of *)
(* an isotopomer of n atoms is a numerator over AbDenom^n, so the sums and *)
(* products of the code are exact integer sums and products here.         *)
(***************************************************************************)
EXTENDS Integers, Sequences, FiniteSets, TLC

\* ---- bounds of the model ----
MaxLen == 3
MaxSlots == 3
MaxCpus == 2

\* ---- scale of the abundances: 1.0 is AbDenom ----
AbDenom == 10

Upper == {"C", "H"}
Lower == {"l"}
Digit == {"0", "2"}
Chars == Upper \cup Lower \cup Digit

DigitVal(c) == IF c = "0" THEN 0 ELSE 2

RECURSIVE Pow(_, _)
Pow(b, e) == IF e = 0 THEN 1 ELSE b * Pow(b, e - 1)

Range(s) == {s[i] : i \in DOMAIN s}

\* ---- dict: insertion-ordered sequence of [key, val] ----
DictKeys(d) == {d[i].key : i \in DOMAIN d}

DictGet(d, k, default) ==
    IF k \in DictKeys(d)
    THEN d[CHOOSE i \in DOMAIN d : d[i].key = k].val
    ELSE default

\* d[k] = v keeping the first key and the sum of the values
DictSetSummed(d, k, v) ==
    IF k \in DictKeys(d)
    THEN [i \in DOMAIN d |-> IF d[i].key = k THEN [key |-> k, val |-> d[i].val + v] ELSE d[i]]
    ELSE Append(d, [key |-> k, val |-> v])

\* d[k] = v : an existing key keeps its place and takes the new value
DictSet(d, k, v) ==
    IF k \in DictKeys(d)
    THEN [i \in DOMAIN d |-> IF d[i].key = k THEN [key |-> k, val |-> v] ELSE d[i]]
    ELSE Append(d, [key |-> k, val |-> v])

\* ---- _parseFormula ----
\* int(num) for a non-empty string of digits
RECURSIVE int(_)
int(num) ==
    IF num = <<>> THEN 0
    ELSE 10 * int(SubSeq(num, 1, Len(num) - 1)) + DigitVal(num[Len(num)])

\* first index >= j of s that holds no digit (the greedy \d*)
RECURSIVE DigitsEnd(_, _)
DigitsEnd(s, j) ==
    IF j <= Len(s) /\ s[j] \in Digit THEN DigitsEnd(s, j + 1) ELSE j

\* PATTERN.findall(formula) from position i: the (atom, num) groups of the
\* non-overlapping matches of ([A-Z][a-z]{0,1})(\d*), left to right
RECURSIVE findall(_, _)
findall(s, i) ==
    IF i > Len(s) THEN <<>>
    ELSE IF s[i] \in Upper
    THEN LET j == IF i + 1 <= Len(s) /\ s[i + 1] \in Lower THEN i + 2 ELSE i + 1
             k == DigitsEnd(s, j)
         IN  <<[atom |-> SubSeq(s, i, j - 1), num |-> SubSeq(s, j, k - 1)]>>
                 \o findall(s, k)
    ELSE findall(s, i + 1)

\* int(num) if num else 1
CountOf(num) == IF num # <<>> THEN int(num) ELSE 1

\* the dict comprehension over the matches ms, from the dict d
RECURSIVE DictOfMatches(_, _)
DictOfMatches(ms, d) ==
    IF ms = <<>> THEN d
    ELSE DictOfMatches(Tail(ms), DictSet(d, Head(ms).atom, CountOf(Head(ms).num)))

_parseFormula(text) == DictOfMatches(findall(text, 1), <<>>)

\* number of atom slots of a parsed formula
RECURSIVE SlotsOf(_)
SlotsOf(f) == IF f = <<>> THEN 0 ELSE Head(f).val + SlotsOf(Tail(f))

\* ---- _parseAbundanceTable ----
Row(e, iso, sh, ab) == [element |-> e, isotope |-> iso, shift |-> sh, abundance |-> ab]

C == <<"C">>
H == <<"H">>
Cl == <<"C", "l">>

\* the table files the run may be given (rows below the header line)
TableFiles ==
    << \* normalised, all of C, H, Cl
       << Row(C, 12, 0, 9), Row(C, 13, 1, 1), Row(H, 1, 0, 10),
          Row(Cl, 35, 0, 8), Row(Cl, 37, 2, 2) >>,
       \* not normalised, three isotopes of C, a repeated row, no Cl
       << Row(C, 12, 0, 2), Row(C, 13, 1, 1), Row(C, 14, 2, 1),
          Row(H, 1, 0, 3), Row(H, 2, 1, 5), Row(H, 2, 1, 1) >>,
       \* C only
       << Row(C, 12, 0, 9), Row(C, 13, 1, 1) >> >>

\* rows of element e folded into its isotope dict: out[element][isotope] = (shift, abund)
RECURSIVE IsotopesOf(_, _, _)
IsotopesOf(rows, e, d) ==
    IF rows = <<>> THEN d
    ELSE IsotopesOf(Tail(rows), e,
                    IF Head(rows).element = e
                    THEN DictSet(d, Head(rows).isotope,
                                 <<Head(rows).shift, Head(rows).abundance>>)
                    ELSE d)

_parseAbundanceTable(rows) ==
    [e \in {rows[i].element : i \in DOMAIN rows} |-> IsotopesOf(rows, e, <<>>)]

\* ---- genArgs ----
\* [(iso, shift, ab) for iso, (shift, ab) in abdTable[atom].items()]
Choices(abdTable, atom) ==
    [i \in DOMAIN abdTable[atom] |->
        <<abdTable[atom][i].key, abdTable[atom][i].val[1], abdTable[atom][i].val[2]>>]

\* the list once for the element, whatever its count
RepeatOnce(x, num) == <<x>>

\* [x] * num
RECURSIVE Repeat(_, _)
Repeat(x, num) == IF num <= 0 THEN <<>> ELSE <<x>> \o Repeat(x, num - 1)

\* expanded_formula: one choice list per atom instance
RECURSIVE ExpandedFormula(_, _)
ExpandedFormula(f, abdTable) ==
    IF f = <<>> THEN <<>>
    ELSE Repeat(Choices(abdTable, Head(f).key), Head(f).val)
             \o ExpandedFormula(Tail(f), abdTable)

\* every r of rest with c put in front
Prefixed(c, rest) == [i \in DOMAIN rest |-> <<c>> \o rest[i]]

RECURSIVE PrefixAll(_, _)
PrefixAll(cs, rest) ==
    IF cs = <<>> THEN <<>> ELSE Prefixed(Head(cs), rest) \o PrefixAll(Tail(cs), rest)

\* itertools.product(*lists), in its order (the last slot varies fastest)
RECURSIVE product(_)
product(lists) ==
    IF lists = <<>> THEN << <<>> >>
    ELSE PrefixAll(Head(lists), product(Tail(lists)))

\* everything genArgs yields, in order
genArgs(f, abdTable) == product(ExpandedFormula(f, abdTable))

\* ---- _getOneIsotopomer ----
\* the loop with shift = ms in place of shift += ms
RECURSIVE IsotopomerLoopAssign(_, _)
IsotopomerLoopAssign(atoms, acc) ==
    IF atoms = <<>> THEN acc
    ELSE IsotopomerLoopAssign(Tail(atoms),
                              <<acc[1] + Head(atoms)[1],
                                Head(atoms)[2],
                                acc[3] * Head(atoms)[3]>>)

\* for iso, ms, ab in atoms: mass += iso; shift += ms; abundance *= ab
RECURSIVE IsotopomerLoop(_, _)
IsotopomerLoop(atoms, acc) ==
    IF atoms = <<>> THEN acc
    ELSE IsotopomerLoop(Tail(atoms),
                        <<acc[1] + Head(atoms)[1],
                          acc[2] + Head(atoms)[2],
                          acc[3] * Head(atoms)[3]>>)

\* (mass, shift, abundance) of one isotopomer, from (0, 0, 1.0)
_getOneIsotopomer(atoms) == IsotopomerLoop(atoms, <<0, 0, 1>>)

\* ---- pool.map: chunks of the materialised argument list ----
\* chunksize, extra = divmod(len(iterable), len(pool) * 4); if extra: chunksize += 1
ChunkSize(n, nworkers) ==
    LET q == n \div (nworkers * 4)
        extra == n % (nworkers * 4)
    IN  IF extra # 0 THEN q + 1 ELSE q

\* number of task batches of n items in chunks of cs
NumChunks(n, cs) == IF cs = 0 THEN 0 ELSE (n + cs - 1) \div cs

Min(a, b) == IF a < b THEN a ELSE b

\* the arguments of chunk c (counted from 0)
ChunkArgs(args, c, cs) == SubSeq(args, c * cs + 1, Min((c + 1) * cs, Len(args)))

\* mapstar: the evaluator over one chunk
MapStar(chunk) == [i \in DOMAIN chunk |-> _getOneIsotopomer(chunk[i])]

\* a chunk result written at the chunk's number instead of its offset
StoreChunkAtIndex(value, c, cs, result) ==
    [i \in DOMAIN value |->
        IF i > c /\ i <= c + Len(result) THEN result[i - c] ELSE value[i]]

\* MapResult._set: value[c*cs:(c+1)*cs] = result
StoreChunk(value, c, cs, result) ==
    [i \in DOMAIN value |->
        IF i > c * cs /\ i <= c * cs + Len(result) THEN result[i - c * cs] ELSE value[i]]

\* ---- the run ----
VARIABLES
    argv,        \* command line: [mode, formula, abdFn, cpus]
    pc,          \* where _main is
    formula,     \* the dict of _parseFormula
    abundance,   \* the dict of _parseAbundanceTable
    errNames,    \* atoms named by the message of _checkCongruency, in the message's order
    poolState,   \* "none", "RUN", "CLOSE" or "TERMINATE"
    running,     \* the batches being evaluated, one per busy worker
    nExited,     \* number of workers that have exited
    argsList,    \* the list pool.map makes of genArgs()
    chunksize,   \* chunk size of the map
    nChunks,     \* number of task batches of the map
    nextChunk,   \* number of batches handed to workers so far
    value,       \* MapResult._value
    nLeft,       \* MapResult._number_left
    mapFailed,   \* a batch ended with an exception
    nProduced,   \* isotopomers genArgs has yielded
    nEvaluated,  \* calls of _getOneIsotopomer that returned
    interrupted, \* KeyboardInterrupt was caught in the parent
    isotopomers, \* the list pool.map returned
    outOfOrder,  \* a batch completed while an earlier batch was still running
    foldIdx,     \* next index of the loop over isotopomers
    out,         \* the dict the loop builds
    file         \* the output file: [exists, header, rows]

vars == <<argv, pc, formula, abundance, errNames, poolState, running, nExited, argsList,
          chunksize, nChunks, nextChunk, value, nLeft, mapFailed, nProduced,
          nEvaluated, interrupted, isotopomers, outOfOrder, foldIdx, out, file>>

Texts == UNION {[1..n -> Chars] : n \in 0..MaxLen}

\* command lines of the model: the formula's expansion is bounded
Init ==
    /\ argv \in {a \in [mode : {"ok", "help", "missing"},
                        formula : Texts,
                        abdFn : DOMAIN TableFiles,
                        cpus : 0..MaxCpus] :
                    SlotsOf(_parseFormula(a.formula)) <= MaxSlots}
    /\ pc = "start"
    /\ formula = <<>>
    /\ abundance = <<>>
    /\ errNames = <<>>
    /\ poolState = "none"
    /\ running = {}
    /\ nExited = 0
    /\ argsList = <<>>
    /\ chunksize = 0
    /\ nChunks = 0
    /\ nextChunk = 0
    /\ value = <<>>
    /\ nLeft = 0
    /\ mapFailed = FALSE
    /\ nProduced = 0
    /\ nEvaluated = 0
    /\ interrupted = FALSE
    /\ isotopomers = <<>>
    /\ outOfOrder = FALSE
    /\ foldIdx = 1
    /\ out = <<>>
    /\ file = [exists |-> FALSE, header |-> FALSE, rows |-> <<>>]

mainVars == <<formula, abundance, errNames>>
mapVars == <<argsList, chunksize, nChunks, nextChunk, value, nLeft, mapFailed,
             nProduced, nEvaluated, outOfOrder>>
poolVars == <<poolState, running, nExited, mapVars, interrupted, isotopomers>>
foldVars == <<foldIdx, out>>

\* _parseArgs: help requested
ParseArgsHelp ==
    /\ pc = "start" /\ argv.mode = "help"
    /\ pc' = "exit_help"
    /\ UNCHANGED <<argv, mainVars, poolVars, foldVars, file>>

\* _parseArgs: None in (formula, abdFn, outFn)
ParseArgsMissing ==
    /\ pc = "start" /\ argv.mode = "missing"
    /\ pc' = "error_args"
    /\ UNCHANGED <<argv, mainVars, poolVars, foldVars, file>>

ParseArgsOk ==
    /\ pc = "start" /\ argv.mode = "ok"
    /\ pc' = "parse_formula"
    /\ UNCHANGED <<argv, mainVars, poolVars, foldVars, file>>

ParseFormula ==
    /\ pc = "parse_formula"
    /\ formula' = _parseFormula(argv.formula)
    /\ pc' = "parse_table"
    /\ UNCHANGED <<argv, abundance, errNames, poolVars, foldVars, file>>

ParseAbundanceTable ==
    /\ pc = "parse_table"
    /\ abundance' = _parseAbundanceTable(TableFiles[argv.abdFn])
    /\ pc' = "check"
    /\ UNCHANGED <<argv, formula, errNames, poolVars, foldVars, file>>

\* the orders in which a set may be iterated
Orderings(S) ==
    {q \in [1..Cardinality(S) -> S] : \A i, j \in 1..Cardinality(S) : q[i] = q[j] => i = j}

\* one atom of the set only
FirstMissingOnly(f, abd) ==
    LET m == DictKeys(f) \ DOMAIN abd
    IN  IF m = {} THEN {} ELSE {CHOOSE x \in m : TRUE}

\* set(formula.keys()).difference(set(abundances.keys()))
Missing(f, abd) == DictKeys(f) \ DOMAIN abd

\* _checkCongruency raises, its message joining the missing atoms
CheckCongruencyRaise ==
    /\ pc = "check"
    /\ Missing(formula, abundance) # {}
    /\ errNames' \in Orderings(Missing(formula, abundance))
    /\ pc' = "error_congruency"
    /\ UNCHANGED <<argv, formula, abundance, poolVars, foldVars, file>>

CheckCongruencyPass ==
    /\ pc = "check"
    /\ Missing(formula, abundance) = {}
    /\ pc' = "pool"
    /\ UNCHANGED <<argv, mainVars, poolVars, foldVars, file>>

\* ---- _getMassShiftAbundances: the pool ----
\* The workers are alike, so the pool is the set of batches being evaluated
\* and the number of workers that have exited; the others are idle.
NumIdle == argv.cpus - Cardinality(running) - nExited

\* mp.Pool(cpus) with cpus < 1 raises ValueError
PoolCreateRaise ==
    /\ pc = "pool" /\ argv.cpus < 1
    /\ pc' = "error_pool"
    /\ UNCHANGED <<argv, mainVars, poolVars, foldVars, file>>

PoolCreate ==
    /\ pc = "pool" /\ argv.cpus >= 1
    /\ poolState' = "RUN"
    /\ running' = {}
    /\ nExited' = 0
    /\ pc' = "map_call"
    /\ UNCHANGED <<argv, mainVars, mapVars, interrupted, isotopomers, foldVars, file>>

\* pool.map(_getOneIsotopomer, genArgs()): the generator has no __len__, so
\* the map makes a list of it, then cuts the list into task batches
MapSubmit ==
    /\ pc = "map_call"
    /\ LET args == genArgs(formula, abundance)
           cs == ChunkSize(Len(args), argv.cpus)
       IN  /\ argsList' = args
           /\ nProduced' = Len(args)
           /\ chunksize' = cs
           /\ nChunks' = NumChunks(Len(args), cs)
           /\ nLeft' = NumChunks(Len(args), cs)
           /\ value' = [i \in 1..Len(args) |-> <<0, 0, 0>>]
    /\ nextChunk' = 0
    /\ pc' = "map_wait"
    /\ UNCHANGED <<argv, mainVars, poolState, running, nExited, mapFailed, nEvaluated,
                   outOfOrder, interrupted, isotopomers, foldVars, file>>

\* an idle worker takes the next batch from the task queue; a closed pool
\* still hands out the batches already submitted
WorkerTake ==
    /\ poolState \in {"RUN", "CLOSE"}
    /\ NumIdle > 0
    /\ nextChunk < nChunks
    /\ running' = running \cup {nextChunk}
    /\ nextChunk' = nextChunk + 1
    /\ UNCHANGED <<argv, pc, mainVars, poolState, nExited, argsList, chunksize, nChunks,
                   value, nLeft, mapFailed, nProduced, nEvaluated, outOfOrder,
                   interrupted, isotopomers, foldVars, file>>

\* the worker on batch c evaluates it and MapResult._set takes the result:
\* it is stored at the batch's offset unless an earlier batch has failed
WorkerFinish(c) ==
    /\ poolState \in {"RUN", "CLOSE"}
    /\ c \in running
    /\ LET result == MapStar(ChunkArgs(argsList, c, chunksize))
       IN  /\ value' = IF mapFailed THEN value
                       ELSE StoreChunk(value, c, chunksize, result)
           /\ nEvaluated' = nEvaluated + Len(result)
    /\ outOfOrder' = (outOfOrder \/ \E r \in running : r < c)
    /\ nLeft' = nLeft - 1
    /\ running' = running \ {c}
    /\ UNCHANGED <<argv, pc, mainVars, poolState, nExited, argsList, chunksize, nChunks,
                   nextChunk, mapFailed, nProduced, interrupted, isotopomers,
                   foldVars, file>>

\* the evaluator raises in the worker on batch c: MapResult._set keeps the
\* exception in place of the results
WorkerRaise(c) ==
    /\ poolState \in {"RUN", "CLOSE"}
    /\ c \in running
    /\ mapFailed' = TRUE
    /\ value' = <<>>
    /\ nLeft' = nLeft - 1
    /\ running' = running \ {c}
    /\ UNCHANGED <<argv, pc, mainVars, poolState, nExited, argsList, chunksize, nChunks,
                   nextChunk, nProduced, nEvaluated, outOfOrder,
                   interrupted, isotopomers, foldVars, file>>

\* pool.map returns the results; leaving the with block terminates the pool
MapReturn ==
    /\ pc = "map_wait"
    /\ nLeft = 0 /\ ~mapFailed
    /\ isotopomers' = value
    /\ poolState' = "TERMINATE"
    /\ running' = {}
    /\ nExited' = argv.cpus
    /\ pc' = "fold"
    /\ UNCHANGED <<argv, mainVars, mapVars, interrupted, foldVars, file>>

\* once every batch is done, pool.map re-raises the evaluator's exception; it
\* is not a KeyboardInterrupt, so it leaves the with block, which terminates
\* the pool
MapRaise ==
    /\ pc = "map_wait"
    /\ nLeft = 0 /\ mapFailed
    /\ poolState' = "TERMINATE"
    /\ running' = {}
    /\ nExited' = argv.cpus
    /\ pc' = "error_evaluator"
    /\ UNCHANGED <<argv, mainVars, mapVars, interrupted, isotopomers, foldVars, file>>

\* KeyboardInterrupt in the parent during pool.map
Interrupt ==
    /\ pc \in {"map_call", "map_wait"}
    /\ interrupted' = TRUE
    /\ pc' = "except_close"
    /\ UNCHANGED <<argv, mainVars, poolState, running, nExited, mapVars, isotopomers,
                   foldVars, file>>

\* pool.close()
PoolClose ==
    /\ pc = "except_close"
    /\ poolState' = "CLOSE"
    /\ pc' = "except_join"
    /\ UNCHANGED <<argv, mainVars, running, nExited, mapVars, interrupted, isotopomers,
                   foldVars, file>>

\* an idle worker of a closed pool exits once the submitted batches are done
WorkerExit ==
    /\ poolState = "CLOSE"
    /\ NumIdle > 0
    /\ nextChunk = nChunks
    /\ nLeft = 0
    /\ nExited' = nExited + 1
    /\ UNCHANGED <<argv, pc, mainVars, poolState, running, mapVars, interrupted,
                   isotopomers, foldVars, file>>

\* the handler ends without raising and the function goes on to its loop
ExceptEndSwallowed == "fold"

\* raise KeyboardInterrupt() at the end of the handler
ExceptEnd == "error_interrupt"

\* pool.join() returns when every worker has exited; then the handler raises
PoolJoinRaise ==
    /\ pc = "except_join"
    /\ nExited = argv.cpus
    /\ poolState' = "TERMINATE"
    /\ pc' = ExceptEnd
    /\ UNCHANGED <<argv, mainVars, running, nExited, mapVars, interrupted, isotopomers,
                   foldVars, file>>

\* ---- _getMassShiftAbundances: the loop over the results ----
\* out[(mass, shift)] = abundance, dropping what was there
FoldUpdateOverwrite(d, r) == DictSet(d, <<r[1], r[2]>>, r[3])

\* out[(mass, shift)] = out.get((mass, shift), 0); out[(mass, shift)] += abundance
FoldUpdate(d, r) ==
    LET d1 == DictSet(d, <<r[1], r[2]>>, DictGet(d, <<r[1], r[2]>>, 0))
    IN  DictSet(d1, <<r[1], r[2]>>, DictGet(d1, <<r[1], r[2]>>, 0) + r[3])

FoldStep ==
    /\ pc = "fold"
    /\ foldIdx <= Len(isotopomers)
    /\ out' = FoldUpdate(out, isotopomers[foldIdx])
    /\ foldIdx' = foldIdx + 1
    /\ UNCHANGED <<argv, pc, mainVars, poolVars, file>>

\* return out
FoldReturn ==
    /\ pc = "fold"
    /\ foldIdx > Len(isotopomers)
    /\ pc' = "write"
    /\ UNCHANGED <<argv, mainVars, poolVars, foldVars, file>>

\* ---- _writeResults ----
\* open(fn, 'w') and writer.writeheader()
WriteOpen ==
    /\ pc = "write"
    /\ ~file.exists
    /\ file' = [exists |-> TRUE, header |-> TRUE, rows |-> <<>>]
    /\ UNCHANGED <<argv, pc, mainVars, poolVars, foldVars>>

\* writer.writerow for the next item of the dict
WriteRow ==
    /\ pc = "write"
    /\ file.exists
    /\ Len(file.rows) < Len(out)
    /\ LET e == out[Len(file.rows) + 1]
       IN  file' = [file EXCEPT !.rows = Append(@, <<e.key[1], e.key[2], e.val>>)]
    /\ UNCHANGED <<argv, pc, mainVars, poolVars, foldVars>>

WriteClose ==
    /\ pc = "write"
    /\ file.exists
    /\ Len(file.rows) = Len(out)
    /\ pc' = "done"
    /\ UNCHANGED <<argv, mainVars, poolVars, foldVars, file>>

Next ==
    \/ ParseArgsHelp
    \/ ParseArgsMissing
    \/ ParseArgsOk
    \/ ParseFormula
    \/ ParseAbundanceTable
    \/ CheckCongruencyRaise
    \/ CheckCongruencyPass
    \/ PoolCreateRaise
    \/ PoolCreate
    \/ MapSubmit
    \/ WorkerTake
    \/ \E c \in running : WorkerFinish(c)
    \/ \E c \in running : WorkerRaise(c)
    \/ MapReturn
    \/ MapRaise
    \/ Interrupt
    \/ PoolClose
    \/ WorkerExit
    \/ PoolJoinRaise
    \/ FoldStep
    \/ FoldReturn
    \/ WriteOpen
    \/ WriteRow
    \/ WriteClose

Spec == Init /\ [][Next]_vars

\* ---- reference definitions for the properties ----
Returned == pc \in {"write", "done"}

ErrorPcs == {"error_args", "error_congruency", "error_pool", "error_evaluator",
             "error_interrupt"}

\* the atom of slot i of the formula f
RECURSIVE AtomAt(_, _)
AtomAt(f, i) ==
    IF i <= Head(f).val THEN Head(f).key ELSE AtomAt(Tail(f), i - Head(f).val)

IsotopeTriples(abd, atom) ==
    {<<abd[atom][j].key, abd[atom][j].val[1], abd[atom][j].val[2]>> : j \in DOMAIN abd[atom]}

\* every assignment of an isotope to every atom instance
AllIsotopomers(f, abd) ==
    LET n == SlotsOf(f)
        U == UNION {IsotopeTriples(abd, a) : a \in DictKeys(f)}
    IN  {g \in [1..n -> U] : \A i \in 1..n : g[i] \in IsotopeTriples(abd, AtomAt(f, i))}

RECURSIVE SumField(_, _, _)
SumField(g, k, n) == IF n = 0 THEN 0 ELSE g[n][k] + SumField(g, k, n - 1)

RECURSIVE ProdField(_, _, _)
ProdField(g, k, n) == IF n = 0 THEN 1 ELSE g[n][k] * ProdField(g, k, n - 1)

KeyOf(g) == <<SumField(g, 1, Len(g)), SumField(g, 2, Len(g))>>

RECURSIVE SumAbundance(_)
SumAbundance(G) ==
    IF G = {} THEN 0
    ELSE LET g == CHOOSE x \in G : TRUE
         IN  ProdField(g, 3, Len(g)) + SumAbundance(G \ {g})

RECURSIVE SumVals(_)
SumVals(d) == IF d = <<>> THEN 0 ELSE Head(d).val + SumVals(Tail(d))

RECURSIVE SumAb(_)
SumAb(isos) == IF isos = <<>> THEN 0 ELSE Head(isos).val[2] + SumAb(Tail(isos))

\* sum of the abundances of the isotopes of one element
ElementSum(abd, atom) == SumAb(abd[atom])

\* C1: the returned Distribution has exactly the (totalMass, totalShift) keys
\* some isotopomer reaches, each once, each holding the sum over the
\* isotopomers landing on it of the product of their abundances; the empty
\* formula gives the single entry (0, 0) -> 1.0
C1_Theorem ==
    Returned =>
        LET G == AllIsotopomers(formula, abundance)
        IN  /\ DictKeys(out) = {KeyOf(g) : g \in G}
            /\ Len(out) = Cardinality(DictKeys(out))
            /\ \A k \in DictKeys(out) :
                   DictGet(out, k, 0) = SumAbundance({g \in G : KeyOf(g) = k})
            /\ formula = <<>> => out = <<[key |-> <<0, 0>>, val |-> 1]>>

\* a returned Distribution of several keys, one of them shared by isotopomers
C1_Witness ==
    /\ pc = "done"
    /\ Len(out) >= 2
    /\ nProduced > Len(out)

RECURSIVE ExpectedCount(_, _)
ExpectedCount(f, abd) ==
    IF f = <<>> THEN 1
    ELSE Pow(Len(abd[Head(f).key]), Head(f).val) * ExpectedCount(Tail(f), abd)

\* C2: once the map has returned, the isotopomers genArgs produced and the
\* evaluator evaluated number the product over the elements of ki^ci
C2_Theorem ==
    pc \in {"fold", "write", "done"} =>
        /\ nProduced = ExpectedCount(formula, abundance)
        /\ nEvaluated = ExpectedCount(formula, abundance)
        /\ Len(isotopomers) = ExpectedCount(formula, abundance)

\* two elements, three and two isotopes, counts 2 and 1: 3^2 * 2^1
C2_Witness ==
    /\ pc = "done"
    /\ Len(formula) = 2
    /\ nEvaluated = 18

RECURSIVE ExpectedTotal(_, _)
ExpectedTotal(f, abd) ==
    IF f = <<>> THEN 1
    ELSE Pow(ElementSum(abd, Head(f).key), Head(f).val) * ExpectedTotal(Tail(f), abd)

Normalised(f, abd) == \A a \in DictKeys(f) : ElementSum(abd, a) = AbDenom

\* C3: the values of the returned Distribution sum to the product over the
\* elements of (sum of the element's abundances)^count, which is 1.0 when
\* every element's abundances sum to 1.0
C3_Theorem ==
    Returned =>
        /\ SumVals(out) = ExpectedTotal(formula, abundance)
        /\ Normalised(formula, abundance) =>
               SumVals(out) = Pow(AbDenom, SlotsOf(formula))

\* a normalised table, several atoms, several keys
C3_Witness ==
    /\ pc = "done"
    /\ Normalised(formula, abundance)
    /\ SlotsOf(formula) >= 2
    /\ Len(out) >= 3
    /\ SumVals(out) = Pow(AbDenom, SlotsOf(formula))

RECURSIVE FoldAll(_, _)
FoldAll(rs, d) == IF rs = <<>> THEN d ELSE FoldAll(Tail(rs), FoldUpdate(d, Head(rs)))

\* the Distribution of the evaluator run over genArgs() in order, one at a time
SequentialDistribution(f, abd) == FoldAll(MapStar(genArgs(f, abd)), <<>>)

\* C4: whatever the pool size and the order in which the workers complete
\* the batches, the returned Distribution is the one of the sequential run
C4_Theorem ==
    Returned => out = SequentialDistribution(formula, abundance)

\* two workers, batches completed out of order
C4_Witness ==
    /\ pc = "done"
    /\ argv.cpus = 2
    /\ outOfOrder
    /\ Len(out) >= 2

\* C5: when atoms of the formula are absent from the table, the run ends in
\* _checkCongruency's error, whose message names every one of them, with no
\* pool created and no isotopomer produced or evaluated
C5_Theorem ==
    (/\ pc \notin {"start", "parse_formula", "parse_table", "check"}
     /\ \E a \in DictKeys(formula) : a \notin DOMAIN abundance)
    => /\ pc = "error_congruency"
       /\ Range(errNames) = {a \in DictKeys(formula) : a \notin DOMAIN abundance}
       /\ poolState = "none"
       /\ nProduced = 0
       /\ nEvaluated = 0

\* the error with two atoms missing
C5_Witness ==
    /\ pc = "error_congruency"
    /\ Len(errNames) >= 2

\* C6: the output file exists only once _getMassShiftAbundances has returned
\* the complete Distribution, and on no failure path does it exist
C6_Theorem ==
    /\ file.exists =>
           /\ Returned
           /\ ~interrupted /\ ~mapFailed
           /\ nLeft = 0
           /\ Len(isotopomers) = nProduced
           /\ foldIdx > Len(isotopomers)
    /\ (pc \in ErrorPcs \/ interrupted \/ (mapFailed /\ poolState = "TERMINATE")) => ~file.exists

\* the file being written, row by row, after the return
C6_Witness ==
    /\ pc = "write"
    /\ file.exists
    /\ Len(file.rows) >= 1
    /\ Len(file.rows) < Len(out)

\* C7: once the interrupt's handler has closed the pool no further batch is
\* handed to a worker, no worker is running when the error surfaces, and the
\* handler ends in the error
C7_Claim ==
    [][/\ (interrupted /\ poolState = "CLOSE") => nextChunk' = nextChunk
       /\ pc' = "error_interrupt" => running' = {} /\ nExited' = argv.cpus
       /\ pc = "except_join" => pc' \in {"except_join", "error_interrupt"}]_vars

\* C8: the isotopomers produced and not yet evaluated never exceed one batch
\* per worker
C8_Claim ==
    nProduced - nEvaluated <= argv.cpus * chunksize

\* C9: every count of the parsed formula is at least 1
C9_Claim ==
    \A i \in DOMAIN formula : formula[i].val >= 1

\* index of the last match of atom a
LastMatch(ms, a) ==
    CHOOSE i \in DOMAIN ms :
        /\ ms[i].atom = a
        /\ \A j \in DOMAIN ms : ms[j].atom = a => j <= i

RECURSIVE SumOver(_, _, _)
SumOver(S, ms, n) ==
    IF S = {} THEN n
    ELSE LET a == CHOOSE x \in S : TRUE
         IN  SumOver(S \ {a}, ms, n + CountOf(ms[LastMatch(ms, a)].num))

\* C10: an atom matched several times has the count of its last match, and
\* the isotopomers have that many slots for it
C10_Theorem ==
    LET ms == findall(argv.formula, 1)
        atoms == {ms[i].atom : i \in DOMAIN ms}
    IN  /\ pc \notin {"start", "parse_formula", "exit_help", "error_args"} =>
            /\ DictKeys(formula) = atoms
            /\ \A a \in atoms :
                   DictGet(formula, a, 0) = CountOf(ms[LastMatch(ms, a)].num)
        /\ pc \in {"fold", "write", "done"} =>
               \A i \in DOMAIN argsList : Len(argsList[i]) = SumOver(atoms, ms, 0)

\* a run to the end of a formula naming an atom twice, the first count larger
C10_Witness ==
    /\ pc = "done"
    /\ \E i, j \in DOMAIN findall(argv.formula, 1) :
           LET ms == findall(argv.formula, 1)
           IN  /\ i < j
               /\ ms[i].atom = ms[j].atom
               /\ CountOf(ms[i].num) > CountOf(ms[j].num)
               /\ DictGet(formula, ms[i].atom, 0) = CountOf(ms[j].num)

====
